---- MODULE Spec2Model ----
(***************************************************************************)
(* tag_media.py: recursive tagging of video media.  For every video file   *)
(* under a root the audio track titles (ffprobe), the file name and the    *)
(* folder name are searched for the language patterns; on a match every    *)
(* tag of the language is inserted into the movie.nfo of the directory.    *)
(*                                                                         *)
(* Strings are sequences of one-character strings, so that Python's        *)
(* substring test, str.lower and os.path.splitext are computed.  The       *)
(* tokens "CR", "LF" and "CTL" stand for the characters U+000D, U+000A and *)
(* a control character XML 1.0 forbids (such as U+0001).                   *)
(***************************************************************************)
EXTENDS Integers, Sequences, FiniteSets, TLC

VARIABLES
    files,     \* os.walk's yield: the files of the tree in walk order
    disk,      \* directory -> content of its movie.nfo
    disk0,     \* disk at the start of the first run
    dry_run,   \* args.dry_run
    run,       \* "first", or "again": main runs once more over the tree
    idx,       \* files[1..idx] have been handled in this run
    pc,        \* "walk", "done" or "aborted" (an exception left main)
    log,       \* what happened to each handled file of this run
    u,         \* update_nfo called in isolation: its arguments and calls
    c          \* the classification called in isolation

vars == <<files, disk, disk0, dry_run, run, idx, pc, log, u, c>>

\* ---------------------------------------------------------------- bounds
NFiles == 2        \* files in the walked tree
MaxKids == 2       \* children of the root of an enumerated sidecar
MaxCalls == 2      \* consecutive update_nfo calls on one sidecar
MaxStreams == 2    \* audio streams ffprobe reports for one file
MaxLen == 2        \* length of the enumerated titles

\* --------------------------------------------------------------- strings
Range(s) == {s[k] : k \in 1..Len(s)}

\* Python's `p in s` for strings.
Contains(s, p) ==
    \E k \in 0..(Len(s) - Len(p)) : SubSeq(s, k + 1, k + Len(p)) = p

\* One character of str.lower(), for the letters the model uses.
LowerChar(ch) ==
    CASE ch = "D" -> "d" [] ch = "E" -> "e" [] ch = "G" -> "g"
      [] ch = "K" -> "k" [] ch = "M" -> "m" [] ch = "V" -> "v"
      [] ch = "T" -> "t" [] ch = "X" -> "x"
      [] OTHER -> ch

Lower(s) == [k \in 1..Len(s) |-> LowerChar(s[k])]

German == <<"G", "e", "r", "m", "a", "n">>
Deutsch == <<"D", "e", "u", "t", "s", "c", "h">>

\* LANGUAGE_CONFIG['de']
search_patterns == <<German, Deutsch, <<"D", "E">>, <<"D", "e", " ">>>>
tags_to_add == <<German, Deutsch>>

VIDEO_EXTENSIONS ==
    { <<".", "m", "k", "v">>, <<".", "m", "p", "4">>, <<".", "a", "v", "i">>,
      <<".", "m", "o", "v">>, <<".", "w", "m", "v">>, <<".", "f", "l", "v">>,
      <<".", "m", "p", "e", "g">>, <<".", "m", "p", "g">> }

\* ------------------------------------------------ ElementTree documents
\* An element's text: None, or a string.
NoText == [some |-> FALSE, s |-> <<>>]
Text(s) == [some |-> TRUE, s |-> s]

\* ET.Element("movie"): a root without attributes and children.
NewMovie == [name |-> "movie", attrs |-> <<>>, kids |-> <<>>]

\* The content of a sidecar file.  kind is "absent" (no such file), "bytes"
\* (a file that is not XML at all) or "xml" (a root element, its
\* attributes and its child elements; data is the character data as it
\* stands in the file: characters, the references "&amp;" and "&#13;").
Absent == [kind |-> "absent", name |-> "", attrs |-> <<>>, kids |-> <<>>]
NotXml == [kind |-> "bytes", name |-> "", attrs |-> <<>>, kids |-> <<>>]
XmlFile(name, attrs, kids) ==
    [kind |-> "xml", name |-> name, attrs |-> attrs, kids |-> kids]

\* expat accepts the file: it is XML and no character data holds a
\* character outside XML's Char production.
WellFormed(f) ==
    /\ f.kind = "xml"
    /\ \A k \in 1..Len(f.kids) : "CTL" \notin Range(f.kids[k].data)

\* Character data as the parser reports it: references are resolved and a
\* literal CR LF or CR becomes LF (XML 1.0 end-of-line handling).
RECURSIVE ParseData(_)
ParseData(d) ==
    IF d = <<>> THEN <<>>
    ELSE IF d[1] = "&amp;" THEN <<"&">> \o ParseData(Tail(d))
    ELSE IF d[1] = "&#13;" THEN <<"CR">> \o ParseData(Tail(d))
    ELSE IF d[1] = "CR"
         THEN IF Len(d) > 1 /\ d[2] = "LF"
              THEN <<"LF">> \o ParseData(Tail(Tail(d)))
              ELSE <<"LF">> \o ParseData(Tail(d))
    ELSE <<d[1]>> \o ParseData(Tail(d))

\* ET.parse(nfo_path).getroot() of a well-formed file; an element without
\* character data has text None.
Parse(f) ==
    [name |-> f.name, attrs |-> f.attrs,
     kids |-> [k \in 1..Len(f.kids) |->
                 [tag |-> f.kids[k].tag,
                  text |-> IF f.kids[k].data = <<>> THEN NoText
                           ELSE Text(ParseData(f.kids[k].data))]]]

\* ElementTree's _escape_cdata: "&" is written as a reference; letters,
\* CR, LF and control characters are written as they are.
EscapeData(s) == [k \in 1..Len(s) |-> IF s[k] = "&" THEN "&amp;" ELSE s[k]]

\* tree.write(nfo_path, encoding="utf-8", xml_declaration=True): an
\* element whose text is None or empty is written as <tag />.
Serialize(root) ==
    XmlFile(root.name, root.attrs,
            [k \in 1..Len(root.kids) |->
               [tag |-> root.kids[k].tag,
                data |-> IF root.kids[k].text.some
                         THEN EscapeData(root.kids[k].text.s) ELSE <<>>]])

\* ------------------------------------------------------------ update_nfo
\* Lines 60-71: the parsed root, or a new movie element when the file does
\* not exist or raises ET.ParseError.
Load(f) ==
    IF f.kind # "absent"
    THEN IF WellFormed(f) THEN Parse(f) ELSE NewMovie
    ELSE NewMovie

\* Line 74.
tag_existsAnyTag(root, tag_to_add) ==
    \E k \in 1..Len(root.kids) : root.kids[k].tag = "tag"

tag_existsNever(root, tag_to_add) == FALSE

tag_exists(root, tag_to_add) ==
    \E k \in 1..Len(root.kids) :
        /\ root.kids[k].tag = "tag"
        /\ root.kids[k].text = Text(tag_to_add)

\* Lines 81-82.
SubElementOnly(root, tag_to_add) ==
    [root EXCEPT !.kids = <<[tag |-> "tag", text |-> Text(tag_to_add)]>>]

SubElement(root, tag_to_add) ==
    [root EXCEPT !.kids = Append(@, [tag |-> "tag", text |-> Text(tag_to_add)])]

\* Lines 84-88: the file after the commit.
CommitAlways(f, root, dry) == Serialize(root)

Commit(f, root, dry) == IF dry THEN f ELSE Serialize(root)

\* update_nfo(nfo_path, tag_to_add, dry_run): the value returned, the file
\* after the call and whether tree.write ran; root is the root loaded in
\* lines 60-71.
update_nfo(f, tag_to_add, dry) ==
    LET Result(root) ==
            IF tag_exists(root, tag_to_add)
            THEN [ret |-> FALSE, file |-> f, wrote |-> FALSE]
            ELSE [ret |-> TRUE,
                  file |-> Commit(f, SubElement(root, tag_to_add), dry),
                  wrote |-> ~dry]
    IN  CHOOSE r \in {Result(root) : root \in {Load(f)}} : TRUE

\* -------------------------------------------------- ffprobe_audio_tracks
\* What running ffprobe on a file comes to: exc is the exception that
\* subprocess.run or json.loads raises ("none": neither raises);
\* has_streams, whether the decoded object has the key "streams".
ProbeResult(exc, has_streams, streams) ==
    [exc |-> exc, has_streams |-> has_streams, streams |-> streams]

\* The except clauses of lines 44-52.
CaughtNoJson == {"FileNotFoundError", "CalledProcessError"}

Caught == {"FileNotFoundError", "CalledProcessError", "JSONDecodeError"}

\* Lines 40-52: the list returned; raised, when the exception escapes.
ffprobe_audio_tracks(p) ==
    IF p.exc = "none"
    THEN [raised |-> FALSE,
          streams |-> IF p.has_streams THEN p.streams ELSE <<>>]
    ELSE [raised |-> p.exc \notin Caught, streams |-> <<>>]

\* ---------------------------------------------------- process_video_file
\* A stream of ffprobe's output: has_tags, "tags" in stream; has_title,
\* "title" in stream["tags"].
Stream(has_tags, has_title, title) ==
    [has_tags |-> has_tags, has_title |-> has_title, title |-> title]

\* Lines 106-108.
TitleOf(stream) ==
    IF stream.has_tags /\ stream.has_title THEN stream.title ELSE <<>>

\* any(pattern in s for pattern in search_patterns)
AnyPatternIn(s) ==
    \E k \in 1..Len(search_patterns) : Contains(s, search_patterns[k])

\* Lines 101-112: found_lang after the loop over the streams.
RECURSIVE StreamsLoop(_, _)
StreamsLoop(streams, found) ==
    IF streams = <<>> THEN found
    ELSE StreamsLoop(Tail(streams),
                     IF AnyPatternIn(TitleOf(Head(streams))) THEN TRUE ELSE found)

\* Lines 101-128: found_lang when the three checks are done.
found_langNoFolder(streams, file_name, folder_name) ==
    LET f1 == StreamsLoop(streams, FALSE)
    IN  IF AnyPatternIn(file_name) THEN TRUE ELSE f1

found_lang(streams, file_name, folder_name) ==
    LET f1 == StreamsLoop(streams, FALSE)
        f2 == IF AnyPatternIn(file_name) THEN TRUE ELSE f1
    IN  IF AnyPatternIn(folder_name) THEN TRUE ELSE f2

\* Lines 132-133: update_nfo for each tag in turn on the same file; r is
\* what the call for the first of the tags returns.
RECURSIVE UpdateEach(_, _, _, _)
UpdateEach(f, tags, dry, calls) ==
    IF tags = <<>> THEN [file |-> f, calls |-> calls]
    ELSE LET Rest(r) == UpdateEach(r.file, Tail(tags), dry,
                                   Append(calls, [tag |-> Head(tags), ret |-> r.ret,
                                                  wrote |-> r.wrote]))
         IN  CHOOSE x \in {Rest(r) : r \in {update_nfo(f, Head(tags), dry)}} : TRUE

\* ------------------------------------------------------------------ main
\* os.path.splitext(filename)[1]: from the last dot on, if a character
\* that is not a dot precedes it.
SplitExt(name) ==
    LET dots == {k \in 1..Len(name) : name[k] = "."} IN
    IF dots = {} THEN <<>>
    ELSE LET d == CHOOSE k \in dots : \A j \in dots : j <= k IN
         IF \E j \in 1..(d - 1) : name[j] # "."
         THEN SubSeq(name, d, Len(name)) ELSE <<>>

\* Lines 145-146.
IsVideo(name) == Lower(SplitExt(name)) \in VIDEO_EXTENSIONS

\* The directories of the walked tree and os.path.basename of each.
Dirs == {"d1", "d2"}

BaseName(dir) == IF dir = "d1" THEN <<"F", "o", "o">> ELSE <<"D", "E">>

\* Line 131: the directory whose movie.nfo a file's tags go to.
NfoDirFirst(file) == "d1"

NfoDir(file) == file.dir

\* ------------------------------------------------------- the walked tree
Name_M_DE_MKV == <<"M", ".", "D", "E", ".", "M", "K", "V">>
Name_f_mkv == <<"f", ".", "m", "k", "v">>
Name_f_mp4 == <<"f", ".", "m", "p", "4">>
Name_DE_txt == <<"D", "E", ".", "t", "x", "t">>

\* A file name together with what ffprobe does on the file.
FileKinds ==
    { [name |-> Name_M_DE_MKV,
       probe |-> ProbeResult("FileNotFoundError", FALSE, <<>>)],
      [name |-> Name_f_mkv,
       probe |-> ProbeResult("none", TRUE,
                   <<Stream(FALSE, FALSE, <<>>), Stream(TRUE, TRUE, German)>>)],
      [name |-> Name_f_mkv,
       probe |-> ProbeResult("CalledProcessError", FALSE, <<>>)],
      [name |-> Name_f_mp4,
       probe |-> ProbeResult("JSONDecodeError", FALSE, <<>>)],
      [name |-> Name_f_mkv,
       probe |-> ProbeResult("none", TRUE,
                   <<Stream(TRUE, FALSE, <<>>), Stream(TRUE, TRUE, <<"d", "e">>)>>)],
      [name |-> Name_DE_txt,
       probe |-> ProbeResult("none", TRUE, <<Stream(TRUE, TRUE, Deutsch)>>)] }

FileOpts == {[dir |-> d, name |-> k.name, probe |-> k.probe] :
                d \in Dirs, k \in FileKinds}

\* Sidecars a run may find in a directory.
PlotData == <<"a", "&#13;", "b">>

SidecarPartial ==
    XmlFile("movie", <<"id">>,
            << [tag |-> "plot", data |-> PlotData],
               [tag |-> "tag", data |-> German] >>)

SidecarTwice ==
    XmlFile("tvshow", <<>>,
            << [tag |-> "tag", data |-> Deutsch],
               [tag |-> "tag", data |-> Deutsch] >>)

RunSidecars == {Absent, NotXml, SidecarPartial, SidecarTwice}

\* ---------------------------------------------------------------- main
IdleU == [nfo |-> Absent, tag |-> <<>>, dry |-> FALSE, hist |-> <<>>]
IdleC == [streams |-> <<>>, file_name |-> <<>>, folder_name |-> <<>>,
          found |-> FALSE, done |-> FALSE]

Init ==
    /\ files \in [1..NFiles -> FileOpts]
    /\ disk \in [Dirs -> RunSidecars]
    /\ disk0 = disk
    /\ dry_run \in BOOLEAN
    /\ run = "first"
    /\ idx = 0
    /\ pc = "walk"
    /\ log = <<>>
    /\ u = IdleU
    /\ c = IdleC

\* Lines 144-148 for a file with a video extension: process_video_file.
ProcessVideoFile ==
    /\ pc = "walk"
    /\ idx < Len(files)
    /\ IsVideo(files[idx + 1].name)
    /\ \E file \in {files[idx + 1]} :
       \E p \in {ffprobe_audio_tracks(file.probe)} :
       \E found \in {found_lang(p.streams, file.name, BaseName(file.dir))} :
       \E r \in {UpdateEach(disk[NfoDir(file)], tags_to_add, dry_run, <<>>)} :
           IF p.raised
           THEN /\ pc' = "aborted"
                /\ UNCHANGED <<disk, idx, log>>
           ELSE /\ pc' = pc
                /\ idx' = idx + 1
                /\ disk' = IF found THEN [disk EXCEPT ![NfoDir(file)] = r.file] ELSE disk
                /\ log' = Append(log, [video |-> TRUE, streams |-> p.streams,
                                       found |-> found,
                                       calls |-> IF found THEN r.calls ELSE <<>>])
    /\ UNCHANGED <<files, disk0, dry_run, run, u, c>>

\* Lines 144-146 for a file without a video extension.
SkipFile ==
    /\ pc = "walk"
    /\ idx < Len(files)
    /\ ~IsVideo(files[idx + 1].name)
    /\ idx' = idx + 1
    /\ log' = Append(log, [video |-> FALSE, streams |-> <<>>, found |-> FALSE,
                           calls |-> <<>>])
    /\ UNCHANGED <<files, disk, disk0, dry_run, run, pc, u, c>>

\* os.walk is exhausted: main returns.
MainReturns ==
    /\ pc = "walk"
    /\ idx = Len(files)
    /\ pc' = "done"
    /\ UNCHANGED <<files, disk, disk0, dry_run, run, idx, log, u, c>>

\* The program is started once more on the same tree, with the same flags
\* and the same ffprobe outcomes.
RunAgain ==
    /\ pc = "done"
    /\ run = "first"
    /\ run' = "again"
    /\ idx' = 0
    /\ log' = <<>>
    /\ pc' = "walk"
    /\ UNCHANGED <<files, disk, disk0, dry_run, u, c>>

Next == ProcessVideoFile \/ SkipFile \/ MainReturns \/ RunAgain

Spec == Init /\ [][Next]_vars

\* The script is sequential: a step that can be taken is taken.
FairSpec == Spec /\ WF_vars(Next)

\* --------------------------------------------- update_nfo in isolation
\* update_nfo(nfo_path, tag_to_add, dry_run) called MaxCalls times in a row
\* with the same arguments, on every enumerated sidecar and tag string.
KidOpts ==
    { [tag |-> "tag", data |-> German],
      [tag |-> "tag", data |-> <<>>],
      [tag |-> "title", data |-> German],
      [tag |-> "tag", data |-> <<"a", "&#13;", "b">>],
      [tag |-> "plot", data |-> <<"&amp;">>] }

RECURSIVE KidSeqs(_)
KidSeqs(n) ==
    IF n = 0 THEN {<<>>}
    ELSE KidSeqs(n - 1) \cup
         {Append(s, k) : s \in {q \in KidSeqs(n - 1) : Len(q) = n - 1},
                         k \in KidOpts}

SidecarsU ==
    {Absent, NotXml} \cup
    {XmlFile(name, attrs, kids) :
        name \in {"movie", "tvshow"}, attrs \in {<<>>, <<"id">>},
        kids \in KidSeqs(MaxKids)}

TagsU ==
    { German, Deutsch, <<>>, <<"&">>, <<"a", "CR", "b">>, <<"a", "LF", "b">>,
      <<"a", "CTL">> }

InitU ==
    /\ u \in {[nfo |-> f, tag |-> t, dry |-> d, hist |-> <<>>] :
                 f \in SidecarsU, t \in TagsU, d \in BOOLEAN}
    /\ files = <<>>
    /\ disk = [d \in Dirs |-> Absent]
    /\ disk0 = disk
    /\ dry_run = FALSE
    /\ run = "first"
    /\ idx = 0
    /\ pc = "done"
    /\ log = <<>>
    /\ c = IdleC

CallUpdateNfo ==
    /\ Len(u.hist) < MaxCalls
    /\ LET r == update_nfo(u.nfo, u.tag, u.dry)
       IN  u' = [u EXCEPT !.nfo = r.file,
                          !.hist = Append(@, [before |-> u.nfo, after |-> r.file,
                                              ret |-> r.ret, wrote |-> r.wrote])]
    /\ UNCHANGED <<files, disk, disk0, dry_run, run, idx, pc, log, c>>

NextU == CallUpdateNfo

SpecU == InitU /\ [][NextU]_vars

\* ------------------------------------------ the classification in isolation
Alphabet == {"D", "E"}

RECURSIVE Strings(_)
Strings(n) ==
    IF n = 0 THEN {<<>>}
    ELSE Strings(n - 1) \cup
         {Append(s, a) : s \in {q \in Strings(n - 1) : Len(q) = n - 1},
                         a \in Alphabet}

TitlesC ==
    Strings(MaxLen) \cup
    { German, <<"x">> \o Deutsch, <<"D", "e", " ">>, <<"D", "e">>,
      <<"d", "e">>, <<"g", "e", "r", "m", "a", "n">> }

StreamOpts ==
    {Stream(FALSE, FALSE, <<>>), Stream(TRUE, FALSE, <<>>)} \cup
    {Stream(TRUE, TRUE, t) : t \in TitlesC}

RECURSIVE StreamSeqs(_)
StreamSeqs(n) ==
    IF n = 0 THEN {<<>>}
    ELSE StreamSeqs(n - 1) \cup
         {Append(s, k) : s \in {q \in StreamSeqs(n - 1) : Len(q) = n - 1},
                         k \in StreamOpts}

FileNamesC == {Name_f_mkv, Name_M_DE_MKV, <<"d", "e", " ", ".", "m", "k", "v">>}
FolderNamesC == {BaseName("d1"), BaseName("d2")}

InitC ==
    /\ c \in {[streams |-> s, file_name |-> f, folder_name |-> d,
               found |-> FALSE, done |-> FALSE] :
                 s \in StreamSeqs(MaxStreams), f \in FileNamesC, d \in FolderNamesC}
    /\ files = <<>>
    /\ disk = [d \in Dirs |-> Absent]
    /\ disk0 = disk
    /\ dry_run = FALSE
    /\ run = "first"
    /\ idx = 0
    /\ pc = "done"
    /\ log = <<>>
    /\ u = IdleU

\* Lines 100-130 of process_video_file on the streams, file and folder.
Classify ==
    /\ ~c.done
    /\ c' = [c EXCEPT !.found = found_lang(c.streams, c.file_name, c.folder_name),
                      !.done = TRUE]
    /\ UNCHANGED <<files, disk, disk0, dry_run, run, idx, pc, log, u>>

NextC == Classify

SpecC == InitC /\ [][NextC]_vars

\* ======================================================================
\* What the properties below speak about, stated without the operators
\* that model the code.

\* Some pattern of the profile is a substring of s.
HasPattern(s) == \E p \in Range(search_patterns) : Contains(s, p)

\* Some stream carries a title that holds a pattern.
TitleMatch(streams) ==
    \E j \in 1..Len(streams) :
        /\ streams[j].has_tags
        /\ streams[j].has_title
        /\ HasPattern(streams[j].title)

\* The streams a probe makes available: none when it fails.
Evidence(probe) ==
    IF probe.exc = "none" /\ probe.has_streams THEN probe.streams ELSE <<>>

\* The file is one the run has to tag.
Matches(file) ==
    \/ TitleMatch(Evidence(file.probe))
    \/ HasPattern(file.name)
    \/ HasPattern(BaseName(file.dir))

\* The name ends, in any letter case, in a video extension that follows a
\* stem which is not made of dots alone.
HasVideoExtension(name) ==
    \E e \in VIDEO_EXTENSIONS :
        /\ Len(name) > Len(e)
        /\ Lower(SubSeq(name, Len(name) - Len(e) + 1, Len(name))) = e
        /\ \E j \in 1..(Len(name) - Len(e)) : name[j] # "."

DirHasMatch(d) ==
    \E i \in 1..Len(files) :
        /\ files[i].dir = d
        /\ HasVideoExtension(files[i].name)
        /\ Matches(files[i])

\* What a reader of the file finds: the root and, for each child, its
\* element name and its text (empty for an element without text).
Document(f) ==
    [name |-> f.name, attrs |-> f.attrs,
     kids |-> [k \in 1..Len(f.kids) |->
                 [tag |-> f.kids[k].tag, s |-> ParseData(f.kids[k].data)]]]

Readable(f) == f.kind = "xml" /\ \A k \in 1..Len(f.kids) : "CTL" \notin Range(f.kids[k].data)

\* The document update_nfo works on: that of the file, or an empty movie.
Loaded(f) ==
    IF Readable(f) THEN Document(f)
    ELSE [name |-> "movie", attrs |-> <<>>, kids |-> <<>>]

\* How many tag children of the document hold t; t must not be empty.
TagCount(doc, t) ==
    Cardinality({k \in 1..Len(doc.kids) :
                    doc.kids[k].tag = "tag" /\ doc.kids[k].s = t})

TagTexts(doc) ==
    {doc.kids[k].s : k \in {j \in 1..Len(doc.kids) : doc.kids[j].tag = "tag"}}

ProfileTags == Range(tags_to_add)

\* ----------------------------------------------------------------- C1
\* C1: in a dry run the content of every sidecar is, in every reachable
\* state, what it was when the run started; a sidecar that did not exist
\* is never created.
DryRunNoMutation == dry_run => disk = disk0

\* A dry run has finished in which a file matched, update_nfo reported an
\* insertion, and the sidecar of that directory does not exist.
DryRunWitness ==
    /\ dry_run
    /\ pc = "done"
    /\ \E i \in 1..Len(log) :
        /\ log[i].found
        /\ Len(log[i].calls) = Len(tags_to_add)
        /\ log[i].calls[1].ret
        /\ disk0[files[i].dir] = Absent
        /\ disk[files[i].dir] = Absent

\* ----------------------------------------------------------------- C5
\* C5: a file is classified as matching exactly if some pattern of the
\* profile is a case-sensitive substring of the title of some stream, of
\* the file name or of the folder name; a stream without a title never
\* matches, and without streams the file and folder names decide alone.
ClassifierDecision ==
    c.done =>
        /\ c.found <=> \/ TitleMatch(c.streams)
                       \/ HasPattern(c.file_name)
                       \/ HasPattern(c.folder_name)
        /\ c.streams = <<>> =>
              (c.found <=> HasPattern(c.file_name) \/ HasPattern(c.folder_name))

\* A file was classified as matching on the title of its second stream
\* alone: the first stream has no tags, file and folder name no pattern.
ClassifierWitness ==
    /\ c.done
    /\ c.found
    /\ Len(c.streams) = 2
    /\ ~c.streams[1].has_tags
    /\ ~HasPattern(c.file_name)
    /\ ~HasPattern(c.folder_name)

ReRunConverges ==
    (run = "again" /\ ~dry_run) =>
        /\ \A i \in 1..Len(log) : \A k \in 1..Len(log[i].calls) :
              ~log[i].calls[k].ret /\ ~log[i].calls[k].wrote
        /\ \A d \in Dirs :
              TagTexts(Loaded(disk[d])) =
                 TagTexts(Loaded(disk0[d])) \cup
                 (IF DirHasMatch(d) THEN ProfileTags ELSE {})

\* The second hot run has finished and called update_nfo for a file.
ReRunWitness ==
    /\ run = "again"
    /\ ~dry_run
    /\ pc = "done"
    /\ \E i \in 1..Len(log) : Len(log[i].calls) = Len(tags_to_add)
    /\ \E d \in Dirs : disk0[d] = Absent /\ disk[d] # Absent

\* ----------------------------------------------------------------- C8
\* Every file of the tree has been handled: a video file was classified,
\* on no streams at all if its probe failed, and update_nfo was called for
\* each tag if it matches.
AllHandled ==
    /\ Len(log) = Len(files)
    /\ \A i \in 1..Len(files) :
        /\ log[i].video = HasVideoExtension(files[i].name)
        /\ log[i].video =>
              /\ files[i].probe.exc # "none" => log[i].streams = <<>>
              /\ log[i].found = Matches(files[i])
              /\ log[i].found => Len(log[i].calls) = Len(tags_to_add)

FrameOfRun ==
    /\ [](\A d \in Dirs : ~DirHasMatch(d) => disk[d] = disk0[d])
    /\ [][ /\ files' = files
           /\ \A d \in Dirs :
                /\ disk[d] # Absent => disk'[d] # Absent
                /\ disk'[d] # disk[d] =>
                      /\ pc = "walk"
                      /\ idx < Len(files)
                      /\ d = files[idx + 1].dir
                      /\ HasVideoExtension(files[idx + 1].name)
                      /\ Matches(files[idx + 1]) ]_vars

\* A hot run has finished that changed the sidecar of one directory and
\* left the other, which holds a file with a pattern in its name but no
\* video extension, as it was.
FrameWitness ==
    /\ pc = "done"
    /\ ~dry_run
    /\ disk["d2"] # disk0["d2"]
    /\ disk["d1"] = disk0["d1"]
    /\ \E i \in 1..Len(files) :
          files[i].dir = "d1" /\ HasPattern(files[i].name) /\ ~log[i].video

\* ----------------------------------------------------------------- C2
\* C2: in a hot run, update_nfo called twice with the same tag leaves the
\* root with the children it had after the first call (same texts, same
\* number, same order), and the second call writes nothing.
UpdateIdempotent ==
    (~u.dry /\ Len(u.hist) >= 2) =>
        /\ u.hist[2].after.kids = u.hist[1].after.kids
        /\ ~u.hist[2].wrote

\* ----------------------------------------------------------------- C3
\* C3: a hot update_nfo on a sidecar that exists but does not parse returns
\* true and leaves a readable document: a movie root without attributes
\* whose only child is a tag element with the text t.
MalformedRecovery ==
    \A i \in 1..Len(u.hist) :
        (~u.dry /\ u.hist[i].before # Absent /\ ~Readable(u.hist[i].before)) =>
            /\ u.hist[i].ret
            /\ Readable(u.hist[i].after)
            /\ Document(u.hist[i].after) =
                 [name |-> "movie", attrs |-> <<>>,
                  kids |-> <<[tag |-> "tag", s |-> u.tag]>>]

\* ----------------------------------------------------------------- C4
\* C4: after update_nfo on a readable sidecar the file is untouched, or it
\* is readable and its document is the previous one (root name, root
\* attributes, every child in order) with one tag child holding t appended.
PreservationUnderMerge ==
    \A i \in 1..Len(u.hist) :
        Readable(u.hist[i].before) =>
            \/ u.hist[i].after = u.hist[i].before
            \/ /\ Readable(u.hist[i].after)
               /\ Document(u.hist[i].after) =
                    [Document(u.hist[i].before) EXCEPT
                        !.kids = Append(@, [tag |-> "tag", s |-> u.tag])]

====
